---- MODULE Spec2Model ----
(***************************************************************************)
(* Group invitations of satellity: CreateGroupInvitation and               *)
(* JoinGroupByInvitation (package models), each one transaction against    *)
(* the relational store, with the group_invitations table, its unique      *)
(* index on (group_id, email) and its cascade on the deletion of a group.  *)
(***************************************************************************)
EXTENDS Integers, Sequences, FiniteSets, TLC

(* ------------------------------ bounds -------------------------------- *)

\* invitation rows a group may already hold in the initial state
PreFill == 6
\* invitation ids (uuid.NewV4) the transactions may draw in one behaviour
MaxIssued == 2
\* participant rows a group may already hold in the initial state
MaxInitialMembers == 1
\* the second byte of the draws the generator is run on ranges over
\* 0..MaxSecondByte, the first byte over all its values
MaxSecondByte == 39
\* values the six high bytes of those draws are filled with
MaxHighFills == 2

(* --------------------------- program constants ------------------------ *)

MaxGroupInvitations == 7
ParticipantRoleVIP == "VIP"
ParticipantSourceInvitation == "invitation"

(* ------------------------------ universe ------------------------------ *)

Procs == {"p1", "p2"}
\* group ids; the callers of Spec address the first one
AllGroups == {"g1", "g2"}
GroupIDs == {"g1"}
UserIDs == {"u1", "u2", "u3"}

\* owner of each group row (groups.user_id)
OwnerOf(g) == IF g = "g1" THEN "u1" ELSE "u2"

\* user.Email.String of each acting user
EmailOf(u) == CASE u = "u1" -> "o@example.com"
                [] u = "u2" -> "a@example.com"
                [] OTHER    -> "b@example.com"

\* addresses an issuance may name
InviteEmails == {"a@example.com", "b@example.com"}

\* addresses of the rows a group holds in the initial state
FillEmails == << "f1@example.com", "f2@example.com", "f3@example.com",
                 "f4@example.com", "f5@example.com", "f6@example.com",
                 "f7@example.com", "f8@example.com" >>

\* 8-byte draws of crypto/rand, least significant byte first
Draw1 == << 234, 0, 0, 0, 0, 0, 0, 0 >>
Draw2 == << 255, 255, 255, 255, 255, 255, 255, 255 >>
RandDraws == { Draw1, Draw2 }

(* ------------------------------ strings ------------------------------- *)

DigitChars == <<"0", "1", "2", "3", "4", "5", "6", "7", "8", "9">>

RECURSIVE Sprint(_)
\* fmt.Sprint of an unsigned integer: its decimal digits
Sprint(n) == IF n < 10 THEN << DigitChars[n + 1] >>
             ELSE Append(Sprint(n \div 10), DigitChars[(n % 10) + 1])

WhiteSpace == {" ", "\t", "\n", "\r"}

RECURSIVE TrimLeft(_)
TrimLeft(s) == IF s # << >> /\ Head(s) \in WhiteSpace THEN TrimLeft(Tail(s)) ELSE s

RECURSIVE TrimRight(_)
TrimRight(s) == IF s # << >> /\ s[Len(s)] \in WhiteSpace
                THEN TrimRight(SubSeq(s, 1, Len(s) - 1)) ELSE s

\* leading white space cut, trailing white space left
TrimSpaceLeftOnly(s) == TrimLeft(s)

\* strings.TrimSpace
TrimSpace(s) == TrimRight(TrimLeft(s))

Pad(s) == << " " >> \o s \o << " ", "\t" >>

(* -------------------------- verification code ------------------------- *)

RECURSIVE Uint64Mod(_, _)
\* binary.LittleEndian.Uint64(b) % m, b[1] the least significant byte
Uint64Mod(b, m) == IF b = << >> THEN 0
                   ELSE (b[1] + 256 * Uint64Mod(Tail(b), m)) % m

\* the number left as reduced, the lift of the numbers below 1000 forgotten
CodeNumberNoLift(b) == Uint64Mod(b, 10000)

\* the lift applied to 1000 as well, the comparison written <=
CodeNumberLiftAtThousand(b) == LET c == Uint64Mod(b, 10000)
                               IN  IF c <= 1000 THEN 1000 + c ELSE c

\* the number behind the code: modulo 10000, lifted by 1000 when below 1000
CodeNumber(b) == LET c == Uint64Mod(b, 10000)
                 IN  IF c < 1000 THEN 1000 + c ELSE c

\* generateVerificationCode: the code, or a ServerError when rand.Read fails
generateVerificationCode(b, randFails) ==
    IF randFails THEN [code |-> << >>, err |-> "ServerError"]
    ELSE [code |-> Sprint(CodeNumber(b)), err |-> "nil"]

\* codes a redeemer may present: the first draw's code between white space,
\* the second draw's code, and no code at all
BadCode == << " ", "1", "2", "x", "3", " " >>
SuppliedCodes == { Pad(Sprint(CodeNumber(Draw1))), Sprint(CodeNumber(Draw2)), BadCode }

(* ------------------------------- errors ------------------------------- *)

\* errors of type session.Error
SessionErrors == {"TooManyGroupInvitations", "Forbidden",
                  "InvalidGroupInvitationCode", "ServerError", "TransactionError"}

\* errors of the store and of the context, which are no session.Error
StoreErrors == {"CountError", "InsertError", "ParticipantError", "DeleteError",
                "ConstraintViolation", "SerializationFailure", "Canceled"}

\* every error of the transaction wrapped, the type of the error not looked at
CallerErrorAlwaysWrapped(err) == IF err = "nil" THEN "nil" ELSE "TransactionError"

\* the error a workflow hands to its caller for the transaction's error
CallerError(err) == IF err = "nil" THEN "nil"
                    ELSE IF err \in SessionErrors THEN err
                    ELSE "TransactionError"

(* ------------------------------- state -------------------------------- *)

VARIABLES
    groups,         \* groups table: existing group id -> [userID, usersCount]
    invitations,    \* group_invitations table: set of rows
    participants,   \* participants table: set of rows
    tx,             \* per caller: the call in flight or its returned result
    nextID,         \* invitation ids drawn so far, plus one
    k0,             \* usersCount of each group in the initial state
    joins,          \* committed redemptions per group
    randBytes,      \* generateVerificationCode: the array b after rand.Read
    generated       \* generateVerificationCode: what it returned, if it has

vars == << groups, invitations, participants, tx, nextID, k0, joins,
           randBytes, generated >>

\* the variables of a run of generateVerificationCode on its own
genVars == << randBytes, generated >>

\* the queries on group_invitations without their WHERE group_id=$1
GroupViewAllInvitations(gs, is, ps, g) ==
    [ row  |-> IF g \in DOMAIN gs THEN { gs[g] } ELSE {},
      inv  |-> is,
      part |-> { r \in ps : r.groupID = g } ]

\* what a transaction on group g reads of the store
GroupView(gs, is, ps, g) ==
    [ row  |-> IF g \in DOMAIN gs THEN { gs[g] } ELSE {},
      inv  |-> { i \in is : i.groupID = g },
      part |-> { r \in ps : r.groupID = g } ]

EmptyView == [ row |-> {}, inv |-> {}, part |-> {} ]

NoWrites == [ setCount |-> {}, addPart |-> {}, delInv |-> {}, ins |-> {} ]

HasWrites(w) == w # NoWrites

(* ------------------------ group_invitations DDL ----------------------- *)

\* the table without its unique index
NoUniqueIndex(rows, row) == TRUE

\* CREATE UNIQUE INDEX ... ON group_invitations (group_id, email)
UniqueIndexAllows(rows, row) ==
    \A i \in rows : ~(i.groupID = row.groupID /\ i.email = row.email)

\* group_id REFERENCES groups ON DELETE CASCADE
CascadeInvitations(is, g) == { i \in is : i.groupID # g }

(* ------------------------- CreateGroupInvitation ---------------------- *)

\* the capacity check moved up by one
TooManyInvitationsAboveEight(count) == count > 8

\* the capacity check of the issuance
TooManyInvitations(count) == count > 7

\* the owner check left out
AnyoneIsOwner(user, group) == TRUE

\* the owner check of the issuance
IsOwner(user, group) == user = group.userID

\* the function run in the transaction: its error, the invitation variable
\* of the enclosing call and the statements executed on the transaction
CreateBody(view, user, groupID, email, draw, fault, id) ==
    LET count == Cardinality(view.inv)
        gen   == generateVerificationCode(draw, fault = "rand")
        inv   == [ invitationID |-> id, groupID |-> groupID,
                   email |-> email, code |-> gen.code ]
    IN  IF fault = "count" THEN
            [ err |-> "CountError", out |-> {}, w |-> NoWrites ]
        ELSE IF TooManyInvitations(count) THEN
            [ err |-> "TooManyGroupInvitations", out |-> {}, w |-> NoWrites ]
        ELSE IF view.row = {} THEN
            [ err |-> "nil", out |-> {}, w |-> NoWrites ]
        ELSE IF \E g \in view.row : ~IsOwner(user, g) THEN
            [ err |-> "Forbidden", out |-> {}, w |-> NoWrites ]
        ELSE IF gen.err # "nil" THEN
            [ err |-> gen.err, out |-> { inv }, w |-> NoWrites ]
        ELSE IF fault = "insert" THEN
            [ err |-> "InsertError", out |-> { inv }, w |-> NoWrites ]
        ELSE IF ~UniqueIndexAllows(view.inv, inv) THEN
            [ err |-> "ConstraintViolation", out |-> { inv }, w |-> NoWrites ]
        ELSE
            [ err |-> "nil", out |-> { inv },
              w |-> [ NoWrites EXCEPT !.ins = { inv } ] ]

\* whether the body draws an invitation id (uuid.NewV4)
CreateDrawsID(view, user, fault) ==
    /\ fault # "count"
    /\ ~TooManyInvitations(Cardinality(view.inv))
    /\ \E g \in view.row : IsOwner(user, g)

\* the return with the transaction's error unchecked
CreateReturnUnchecked(body, err) == [ value |-> body.out, err |-> "nil" ]

\* what CreateGroupInvitation returns for the transaction's error
CreateReturn(body, err) ==
    IF err # "nil" THEN [ value |-> {}, err |-> CallerError(err) ]
    ELSE [ value |-> body.out, err |-> "nil" ]

(* ------------------------- JoinGroupByInvitation ---------------------- *)

\* findGroup handing a zero-valued group for a row that is not there
LoadGroupZeroValue(view, groupID) ==
    IF view.row = {}
    THEN { [ groupID |-> groupID, userID |-> "", usersCount |-> 0, role |-> "" ] }
    ELSE { [ groupID |-> groupID, userID |-> g.userID,
             usersCount |-> g.usersCount, role |-> "" ] : g \in view.row }

\* findGroup: the group as the call holds it in memory
LoadGroup(view, groupID) ==
    { [ groupID |-> groupID, userID |-> g.userID,
        usersCount |-> g.usersCount, role |-> "" ] : g \in view.row }

\* the lookup with the email left out of its WHERE: the first row of the group
findGroupInvitationByGroupID(view, groupID, email) ==
    LET m == { i \in view.inv : i.groupID = groupID }
    IN  IF m = {} THEN {}
        ELSE { CHOOSE i \in m : \A j \in m : i.invitationID <= j.invitationID }

\* findGroupInvitationByGroupIDAndEmail: ... WHERE group_id AND email LIMIT 1
findGroupInvitationByGroupIDAndEmail(view, groupID, email) ==
    LET m == { i \in view.inv : i.groupID = groupID /\ i.email = email }
    IN  IF m = {} THEN {} ELSE { CHOOSE i \in m : TRUE }

\* the code check left out
AnyCodeMatches(invitation, code) == TRUE

\* the code check of the redemption
CodeMatches(invitation, code) == invitation.code = TrimSpace(code)

\* the count written as read, the increment forgotten
NewUsersCountNoIncrement(count) == count

\* the count taken for zero, as when the scan of count(*) is skipped
NewUsersCountFromZero(count) == 1

\* the users_count the redemption writes
NewUsersCount(count) == count + 1

\* createParticipant: the row of the joining user
ParticipantRow(view, groupID, userID, role, source) ==
    [ groupID |-> groupID, userID |-> userID, role |-> role,
      source |-> source, seq |-> Cardinality(view.part) + 1 ]

\* the redemption with the error of createParticipant dropped
JoinBodyIgnoringParticipantError(view, user, groupID, code, fault) ==
    LET group == LoadGroup(view, groupID)
        found == findGroupInvitationByGroupIDAndEmail(view, groupID, EmailOf(user))
        count == Cardinality(view.part)
        vip   == { [ g EXCEPT !.usersCount = NewUsersCount(count),
                              !.role = ParticipantRoleVIP ] : g \in group }
        w1 == [ NoWrites EXCEPT !.setCount = { NewUsersCount(count) } ]
        w2 == [ w1 EXCEPT !.addPart = { ParticipantRow(view, groupID, user,
                              ParticipantRoleVIP, ParticipantSourceInvitation) } ]
    IN  IF group = {} THEN
            [ err |-> "nil", out |-> {}, w |-> NoWrites ]
        ELSE IF found = {} THEN
            [ err |-> "nil", out |-> group, w |-> NoWrites ]
        ELSE IF \E i \in found : ~CodeMatches(i, code) THEN
            [ err |-> "InvalidGroupInvitationCode", out |-> group, w |-> NoWrites ]
        ELSE IF fault = "participant" THEN
            [ err |-> "nil", out |-> vip,
              w |-> [ w1 EXCEPT !.delInv = { i.invitationID : i \in found } ] ]
        ELSE IF fault = "delete" THEN
            [ err |-> "DeleteError", out |-> vip, w |-> w2 ]
        ELSE
            [ err |-> "nil", out |-> vip,
              w |-> [ w2 EXCEPT !.delInv = { i.invitationID : i \in found } ] ]

\* the redemption without its DELETE: the invitation is left in the table
JoinBodyKeepingInvitation(view, user, groupID, code, fault) ==
    LET group == LoadGroup(view, groupID)
        found == findGroupInvitationByGroupIDAndEmail(view, groupID, EmailOf(user))
        count == Cardinality(view.part)
        vip   == { [ g EXCEPT !.usersCount = NewUsersCount(count),
                              !.role = ParticipantRoleVIP ] : g \in group }
        w1 == [ NoWrites EXCEPT !.setCount = { NewUsersCount(count) } ]
        w2 == [ w1 EXCEPT !.addPart = { ParticipantRow(view, groupID, user,
                              ParticipantRoleVIP, ParticipantSourceInvitation) } ]
    IN  IF group = {} THEN
            [ err |-> "nil", out |-> {}, w |-> NoWrites ]
        ELSE IF found = {} THEN
            [ err |-> "nil", out |-> group, w |-> NoWrites ]
        ELSE IF \E i \in found : ~CodeMatches(i, code) THEN
            [ err |-> "InvalidGroupInvitationCode", out |-> group, w |-> NoWrites ]
        ELSE IF fault = "participant" THEN
            [ err |-> "ParticipantError", out |-> vip, w |-> w1 ]
        ELSE
            [ err |-> "nil", out |-> vip, w |-> w2 ]

\* the redemption with its DELETE keyed by the group: every invitation of
\* the group goes with the one redeemed
JoinBodyDeletingByGroup(view, user, groupID, code, fault) ==
    LET group == LoadGroup(view, groupID)
        found == findGroupInvitationByGroupIDAndEmail(view, groupID, EmailOf(user))
        count == Cardinality(view.part)
        vip   == { [ g EXCEPT !.usersCount = NewUsersCount(count),
                              !.role = ParticipantRoleVIP ] : g \in group }
        w1 == [ NoWrites EXCEPT !.setCount = { NewUsersCount(count) } ]
        w2 == [ w1 EXCEPT !.addPart = { ParticipantRow(view, groupID, user,
                              ParticipantRoleVIP, ParticipantSourceInvitation) } ]
    IN  IF group = {} THEN
            [ err |-> "nil", out |-> {}, w |-> NoWrites ]
        ELSE IF found = {} THEN
            [ err |-> "nil", out |-> group, w |-> NoWrites ]
        ELSE IF \E i \in found : ~CodeMatches(i, code) THEN
            [ err |-> "InvalidGroupInvitationCode", out |-> group, w |-> NoWrites ]
        ELSE IF fault = "participant" THEN
            [ err |-> "ParticipantError", out |-> vip, w |-> w1 ]
        ELSE IF fault = "delete" THEN
            [ err |-> "DeleteError", out |-> vip, w |-> w2 ]
        ELSE
            [ err |-> "nil", out |-> vip,
              w |-> [ w2 EXCEPT !.delInv = { i.invitationID : i \in view.inv } ] ]

\* the function run in the transaction: its error, the group variable of the
\* enclosing call and the statements executed on the transaction
JoinBody(view, user, groupID, code, fault) ==
    LET group == LoadGroup(view, groupID)
        found == findGroupInvitationByGroupIDAndEmail(view, groupID, EmailOf(user))
        count == Cardinality(view.part)
        counted == { [ g EXCEPT !.usersCount = NewUsersCount(count) ] : g \in group }
        vip     == { [ g EXCEPT !.role = ParticipantRoleVIP ] : g \in counted }
        w1 == [ NoWrites EXCEPT !.setCount = { NewUsersCount(count) } ]
        w2 == [ w1 EXCEPT !.addPart = { ParticipantRow(view, groupID, user,
                              ParticipantRoleVIP, ParticipantSourceInvitation) } ]
        w3 == [ w2 EXCEPT !.delInv = { i.invitationID : i \in found } ]
    IN  IF group = {} THEN
            [ err |-> "nil", out |-> {}, w |-> NoWrites ]
        ELSE IF found = {} THEN
            [ err |-> "nil", out |-> group, w |-> NoWrites ]
        ELSE IF \E i \in found : ~CodeMatches(i, code) THEN
            [ err |-> "InvalidGroupInvitationCode", out |-> group, w |-> NoWrites ]
        ELSE IF fault = "participant" THEN
            [ err |-> "ParticipantError", out |-> vip, w |-> w1 ]
        ELSE IF fault = "delete" THEN
            [ err |-> "DeleteError", out |-> vip, w |-> w2 ]
        ELSE
            [ err |-> "nil", out |-> vip, w |-> w3 ]

\* what JoinGroupByInvitation returns for the transaction's error
JoinReturn(body, err) ==
    IF err # "nil" THEN [ value |-> {}, err |-> CallerError(err) ]
    ELSE [ value |-> body.out, err |-> "nil" ]

(* --------------------------- the transaction -------------------------- *)

\* RunInTransaction: the error of the transaction. The function's error
\* rolls back; a transaction that wrote is refused at commit when what it
\* read of its group has changed since it began
RunInTransaction(body, view, cur) ==
    IF body.err # "nil" THEN body.err
    ELSE IF HasWrites(body.w) /\ cur # view THEN "SerializationFailure"
    ELSE "nil"

\* the tables after the statements w of a committed transaction on group g
CommitGroups(gs, w, g) ==
    IF w.setCount = {} THEN gs
    ELSE [ gs EXCEPT ![g].usersCount = CHOOSE n \in w.setCount : TRUE ]

CommitInvitations(is, w) ==
    { i \in is : i.invitationID \notin w.delInv } \cup w.ins

CommitParticipants(ps, w) == ps \cup w.addPart

\* a transaction stays in flight between its function and its commit when it
\* has statements to commit; one that failed or wrote nothing is rolled back
\* or ended as its function returns, and nothing of it meets another transaction
InFlight(body) == body.err = "nil" /\ HasWrites(body.w)

NoBody == [ err |-> "nil", out |-> {}, w |-> NoWrites ]
NoReturn == [ value |-> {}, err |-> "nil" ]

Idle == [ st |-> "idle", op |-> "", user |-> "", group |-> "", email |-> "",
          code |-> << >>, view |-> EmptyView, body |-> NoBody,
          cause |-> "nil", ret |-> NoReturn ]

\* a call of op by user u on group g with email e or code c
Running(op, u, g, e, c, view, body) ==
    [ Idle EXCEPT !.st = "run", !.op = op, !.user = u, !.group = g, !.email = e,
                  !.code = c, !.view = view, !.body = body ]

\* the value the workflow returns for the transaction's error
Return(op, body, err) == IF op = "create" THEN CreateReturn(body, err)
                         ELSE JoinReturn(body, err)

\* the call after its return, with the transaction's error as the cause; the
\* user and the email are kept of a call whose transaction was in flight
Returned(t, err) ==
    [ Idle EXCEPT !.st = "done", !.op = t.op, !.group = t.group,
                  !.user = IF InFlight(t.body) THEN t.user ELSE "",
                  !.email = IF InFlight(t.body) THEN t.email ELSE "",
                  !.cause = err, !.ret = Return(t.op, t.body, err) ]

\* a caller takes the first free connection
FirstFree(p) == tx[p].st # "run" /\ (p = "p2" => tx["p1"].st = "run")

\* store errors a caller may meet, by the statement that fails
CreateFaults == {"none", "count", "rand", "insert"}
JoinFaults == {"none", "participant", "delete"}

(* ------------------------------ initial state ------------------------- *)

\* rows written by the membership subsystem before any redemption
InitialMembers(g, k) ==
    { [ groupID |-> g, userID |-> "m", role |-> "MEMBER",
        source |-> "PAYMENT", seq |-> n ] : n \in 1..k }

\* invitation rows issued by the owner of g1 before the behaviour begins
InitialInvitations(n) ==
    { [ invitationID |-> 100 + i, groupID |-> "g1", email |-> FillEmails[i],
        code |-> Sprint(1000 + i) ] : i \in 1..n }

Init ==
    /\ k0 \in [ AllGroups -> 0..MaxInitialMembers ]
    /\ \A g \in AllGroups \ GroupIDs : k0[g] = 0
    /\ groups = [ g \in GroupIDs |-> [ userID |-> OwnerOf(g), usersCount |-> k0[g] ] ]
    /\ participants = UNION { InitialMembers(g, k0[g]) : g \in GroupIDs }
    /\ invitations = InitialInvitations(PreFill)
    /\ tx = [ p \in Procs |-> Idle ]
    /\ nextID = 1
    /\ joins = [ g \in AllGroups |-> 0 ]
    /\ randBytes = Draw1
    /\ generated = {}

(* -------------------------------- actions ----------------------------- *)

\* the end of the transaction of t on the tables as they are: its error, and
\* the tables committed or left as they were
Settle(t, err) ==
    LET ok == err = "nil"
    IN  /\ groups' = IF ok THEN CommitGroups(groups, t.body.w, t.group) ELSE groups
        /\ invitations' = IF ok THEN CommitInvitations(invitations, t.body.w)
                          ELSE invitations
        /\ participants' = IF ok THEN CommitParticipants(participants, t.body.w)
                           ELSE participants
        /\ joins' = IF ok /\ t.op = "join" /\ t.body.w.addPart # {}
                    THEN [ joins EXCEPT ![t.group] = @ + 1 ] ELSE joins

\* a call begins its transaction and runs its function on what it reads; it
\* returns at once unless the transaction stays in flight
Call(p, t) ==
    LET err == RunInTransaction(t.body, t.view, t.view)
    IN  IF InFlight(t.body)
        THEN /\ tx' = [ tx EXCEPT ![p] = t ]
             /\ UNCHANGED << groups, invitations, participants, joins >>
        ELSE /\ tx' = [ tx EXCEPT ![p] = Returned(t, err) ]
             /\ Settle(t, err)

\* user u calls CreateGroupInvitation(g, e); d is the random draw
CreateGroupInvitation(p, u, g, e, d, f) ==
    LET view == GroupView(groups, invitations, participants, g)
        draws == CreateDrawsID(view, u, f)
    IN  /\ FirstFree(p)
        /\ draws => nextID <= MaxIssued
        /\ Call(p, Running("create", u, g, e, << >>, view,
                            CreateBody(view, u, g, e, d, f, nextID)))
        /\ nextID' = IF draws THEN nextID + 1 ELSE nextID
        /\ UNCHANGED << k0, genVars >>

\* user u calls JoinGroupByInvitation(g, c)
JoinGroupByInvitation(p, u, g, c, f) ==
    LET view == GroupView(groups, invitations, participants, g)
    IN  /\ FirstFree(p)
        /\ Call(p, Running("join", u, g, "", c, view, JoinBody(view, u, g, c, f)))
        /\ UNCHANGED << nextID, k0, genVars >>

\* the transaction in flight commits, or is refused, and the call returns
Finish(p) ==
    LET t   == tx[p]
        cur == GroupView(groups, invitations, participants, t.group)
        err == RunInTransaction(t.body, t.view, cur)
    IN  /\ t.st = "run"
        /\ Settle(t, err)
        /\ tx' = [ tx EXCEPT ![p] = Returned(t, err) ]
        /\ UNCHANGED << nextID, k0, genVars >>

\* the caller's context is cancelled while the transaction is in flight
Cancel(p) ==
    /\ tx[p].st = "run"
    /\ Settle(tx[p], "Canceled")
    /\ tx' = [ tx EXCEPT ![p] = Returned(tx[p], "Canceled") ]
    /\ UNCHANGED << nextID, k0, genVars >>

\* the membership subsystem deletes a group; its rows go with it
DeleteGroup(g) ==
    /\ g \in DOMAIN groups
    /\ groups' = [ h \in DOMAIN groups \ {g} |-> groups[h] ]
    /\ invitations' = CascadeInvitations(invitations, g)
    /\ participants' = { r \in participants : r.groupID # g }
    /\ UNCHANGED << tx, nextID, k0, joins, genVars >>

Next ==
    \/ \E p \in Procs, u \in UserIDs, g \in GroupIDs, e \in InviteEmails,
          d \in RandDraws, f \in CreateFaults : CreateGroupInvitation(p, u, g, e, d, f)
    \/ \E p \in Procs, u \in UserIDs, g \in GroupIDs, c \in SuppliedCodes,
          f \in JoinFaults : JoinGroupByInvitation(p, u, g, c, f)
    \/ \E p \in Procs : Finish(p)
    \/ \E p \in Procs : Cancel(p)
    \/ \E g \in GroupIDs : DeleteGroup(g)

Spec == Init /\ [][Next]_vars

TypeOK ==
    /\ DOMAIN groups \subseteq AllGroups
    /\ nextID \in 1..(MaxIssued + 1)
    /\ \A p \in Procs : tx[p].st \in {"idle", "run", "done"}

(* ----------------------- a group at its capacity ---------------------- *)

\* the initial state of Init with g1 holding MaxGroupInvitations rows, so that
\* one issuance brings the group to the count the capacity check refuses
CapacityInit ==
    /\ k0 \in [ AllGroups -> 0..MaxInitialMembers ]
    /\ \A g \in AllGroups \ GroupIDs : k0[g] = 0
    /\ groups = [ g \in GroupIDs |-> [ userID |-> OwnerOf(g), usersCount |-> k0[g] ] ]
    /\ participants = UNION { InitialMembers(g, k0[g]) : g \in GroupIDs }
    /\ invitations = InitialInvitations(MaxGroupInvitations)
    /\ tx = [ p \in Procs |-> Idle ]
    /\ nextID = 1
    /\ joins = [ g \in AllGroups |-> 0 ]
    /\ randBytes = Draw1
    /\ generated = {}

CapacitySpec == CapacityInit /\ [][Next]_vars

(* ------------------------------ two groups ---------------------------- *)

\* both groups exist, the second with no rows yet
TwoGroupsInit ==
    /\ k0 = [ g \in AllGroups |-> 0 ]
    /\ groups = [ g \in AllGroups |-> [ userID |-> OwnerOf(g), usersCount |-> 0 ] ]
    /\ participants = {}
    /\ invitations = InitialInvitations(PreFill)
    /\ tx = [ p \in Procs |-> Idle ]
    /\ nextID = 1
    /\ joins = [ g \in AllGroups |-> 0 ]
    /\ randBytes = Draw1
    /\ generated = {}

\* the calls of Next addressed to either group: issuances for one address
\* with one draw, redemptions with its code or with no code, the store
\* answering each statement
TwoGroupsNext ==
    \/ \E p \in Procs, u \in UserIDs, g \in AllGroups :
          CreateGroupInvitation(p, u, g, "a@example.com", Draw1, "none")
    \/ \E p \in Procs, u \in UserIDs, g \in AllGroups,
          c \in { Pad(Sprint(CodeNumber(Draw1))), BadCode } :
          JoinGroupByInvitation(p, u, g, c, "none")
    \/ \E p \in Procs : Finish(p)
    \/ \E p \in Procs : Cancel(p)
    \/ \E g \in AllGroups : DeleteGroup(g)

TwoGroupsSpec == TwoGroupsInit /\ [][TwoGroupsNext]_vars

(* ------------------ generateVerificationCode on its own --------------- *)

\* values the six high bytes of a draw are filled with
HighFill == << 0, 255, 128, 1 >>

\* draws of rand.Read the generator is run on: every residue modulo 10000
\* occurs among them, below and above 2^32
GenDraws ==
    { << lo, hi, h, h, h, h, h, h >> :
         lo \in 0..255, hi \in 0..MaxSecondByte,
         h \in { HighFill[k] : k \in 1..MaxHighFills } }

GenInit ==
    /\ randBytes \in GenDraws
    /\ generated = {}
    /\ k0 = [ g \in AllGroups |-> 0 ]
    /\ groups = [ g \in GroupIDs |-> [ userID |-> OwnerOf(g), usersCount |-> 0 ] ]
    /\ participants = {}
    /\ invitations = {}
    /\ tx = [ p \in Procs |-> Idle ]
    /\ nextID = 1
    /\ joins = [ g \in AllGroups |-> 0 ]

\* a call of generateVerificationCode returns, rand.Read having failed or not
Generate(randFails) ==
    /\ generated = {}
    /\ generated' = { generateVerificationCode(randBytes, randFails) }
    /\ UNCHANGED << randBytes, groups, invitations, participants, tx, nextID,
                    k0, joins >>

GenNext == \E randFails \in BOOLEAN : Generate(randFails)

GenSpec == GenInit /\ [][GenNext]_vars

(* ------------------------------ properties ---------------------------- *)

InvitationsOf(g) == { i \in invitations : i.groupID = g }
ParticipantsOf(g) == { r \in participants : r.groupID = g }
View(g) == GroupView(groups, invitations, participants, g)

\* caller p returns from a call of op in this step
Returns(p, op) == tx'[p].st = "done" /\ tx'[p].op = op /\ tx'[p] # tx[p]

\* the transaction in flight of caller p ends and its call of op returns
Ends(p, op) == tx[p].st = "run" /\ tx[p].op = op /\ tx'[p].st = "done"

\* C1: in every reachable state each group has at most MaxGroupInvitations (7)
\* invitation rows: an issuance against a group that holds 7 rows writes no
\* 8th row.
C1_AtMostSevenInvitations ==
    \A g \in AllGroups : Cardinality(InvitationsOf(g)) <= MaxGroupInvitations

\* C2: JoinGroupByInvitation is all or nothing. A call that returns an error
\* (a failed statement, a refused commit, a cancelled context) leaves the
\* group's usersCount, the participant rows and the invitation rows as they
\* were, and any returning call has deleted an invitation exactly when it has
\* created a participant and exactly when it has written usersCount.
C2_JoinAllOrNothing ==
    [][ \A p \in Procs : Returns(p, "join") =>
          LET deleted == invitations \ invitations' # {}
              created == participants' \ participants # {}
              counted == groups' # groups
          IN  /\ tx'[p].ret.err # "nil" =>
                    UNCHANGED << groups, invitations, participants >>
              /\ deleted <=> created
              /\ created <=> counted
              /\ invitations' \subseteq invitations
              /\ participants \subseteq participants' ]_vars

\* a redemption failed at createParticipant, after the update of users_count,
\* and the invitation it would have consumed is still there
C2_Witness ==
    \E p \in Procs :
        /\ tx[p].st = "done" /\ tx[p].op = "join"
        /\ tx[p].cause = "ParticipantError"
        /\ tx[p].ret = [ value |-> {}, err |-> "TransactionError" ]
        /\ \E i \in InvitationsOf(tx[p].group) : i.email \in { EmailOf(u) : u \in UserIDs }
        /\ tx[p].group \in DOMAIN groups
        /\ groups[tx[p].group].usersCount = Cardinality(ParticipantsOf(tx[p].group))

\* C3: the usersCount of every group equals the number of its participant
\* rows, in every state redemptions commit into, concurrent ones included.
C3_UsersCountIsParticipantCount ==
    \A g \in DOMAIN groups : groups[g].usersCount = Cardinality(ParticipantsOf(g))

\* a redemption is in flight on a count it read before the redemption of
\* another user of the same group committed
C3_Witness ==
    \E p \in Procs :
        /\ tx[p].st = "run" /\ tx[p].op = "join"
        /\ \E r \in ParticipantsOf(tx[p].group) \ tx[p].view.part :
              /\ r.userID # tx[p].user
              /\ r.source = ParticipantSourceInvitation

\* C4: after N committed redemptions for a group that began with usersCount k,
\* its usersCount is k + N and is the number of its participant rows.
C4_UsersCountAfterNJoins ==
    \A g \in DOMAIN groups :
        /\ groups[g].usersCount = k0[g] + joins[g]
        /\ Cardinality(ParticipantsOf(g)) = k0[g] + joins[g]

\* two redemptions committed for a group that began with one member
C4_Witness ==
    \E g \in DOMAIN groups : k0[g] = 1 /\ joins[g] = 2 /\ groups[g].usersCount = 3

\* the rows of the pair (g, e)
PairRows(is, g, e) == { i \in is : i.groupID = g /\ i.email = e }

\* what a call of CreateGroupInvitation made alone in this state comes to
CreateAlone(u, g, e, d, f) ==
    LET view == View(g)
        body == CreateBody(view, u, g, e, d, f, nextID)
    IN  [ body |-> body,
          ret |-> CreateReturn(body, RunInTransaction(body, view, view)) ]

\* what a call of JoinGroupByInvitation made alone in this state comes to
JoinAlone(u, g, c, f) ==
    LET view == View(g)
        body == JoinBody(view, u, g, c, f)
    IN  [ body |-> body,
          ret |-> JoinReturn(body, RunInTransaction(body, view, view)) ]

\* C5: of two CreateGroupInvitation transactions in flight for one
\* (groupID, email) pair one row is persisted: the call that ends after a row
\* of its pair was committed returns a failure and no invitation and writes
\* nothing, and a call that returns its invitation has written the one row of
\* its pair.
C5_ConcurrentSamePairOneRow ==
    [][ \A p \in Procs : Ends(p, "create") =>
          LET before == PairRows(invitations, tx[p].group, tx[p].email)
              after  == PairRows(invitations', tx[p].group, tx[p].email)
          IN  /\ Cardinality(after) <= 1
              /\ before # {} =>
                    /\ tx'[p].ret.err # "nil" /\ tx'[p].ret.value = {}
                    /\ invitations' = invitations
              /\ tx'[p].ret.err = "nil" =>
                    /\ before = {}
                    /\ after = tx'[p].ret.value /\ Cardinality(after) = 1
              /\ tx'[p].ret.err # "nil" => tx'[p].ret.value = {} ]_vars

\* two issuances for one pair were in flight together: one returned its
\* invitation, whose row is the pair's only row, and the other a failure
C5_Witness ==
    \E p, q \in Procs :
        /\ tx[p].st = "done" /\ tx[p].op = "create" /\ tx[p].cause = "nil"
        /\ tx[q].st = "done" /\ tx[q].op = "create"
        /\ tx[q].cause = "SerializationFailure"
        /\ tx[q].ret = [ value |-> {}, err |-> "TransactionError" ]
        /\ tx[p].group = tx[q].group /\ tx[p].email = tx[q].email
        /\ tx[p].email \in InviteEmails
        /\ PairRows(invitations, tx[p].group, tx[p].email) = tx[p].ret.value
        /\ tx[p].ret.value # {}

\* C6: there is at most one invitation row per (groupID, email) pair, and an
\* issuance for a pair that has a row fails, returns no invitation and writes
\* nothing.
C6_UniquePair ==
    /\ \A i, j \in invitations :
          i.groupID = j.groupID /\ i.email = j.email => i = j
    /\ \A u \in UserIDs, g \in AllGroups, e \in InviteEmails, d \in RandDraws,
          f \in CreateFaults :
          PairRows(invitations, g, e) # {} =>
              LET r == CreateAlone(u, g, e, d, f)
              IN  /\ r.body.err # "nil" /\ r.body.w = NoWrites
                  /\ r.ret.err # "nil" /\ r.ret.value = {}

\* the owner's second issuance for a pair met the unique index, and the
\* pair's row is there
C6_Witness ==
    \E p \in Procs :
        /\ tx[p].st = "done" /\ tx[p].op = "create"
        /\ tx[p].cause = "ConstraintViolation"
        /\ tx[p].ret = [ value |-> {}, err |-> "TransactionError" ]
        /\ \E e \in InviteEmails :
              Cardinality(PairRows(invitations, tx[p].group, e)) = 1

\* C7: JoinGroupByInvitation on an existing group for a user without an
\* invitation row returns no group and no error and writes nothing.
C7_NoInvitationReturnsNothing ==
    \A u \in UserIDs, g \in DOMAIN groups, c \in SuppliedCodes, f \in JoinFaults :
        PairRows(invitations, g, EmailOf(u)) = {} =>
            LET r == JoinAlone(u, g, c, f)
            IN  r.ret = [ value |-> {}, err |-> "nil" ] /\ r.body.w = NoWrites

\* the supplied code is the stored code, bare or between white space
Presents(c, code) == c = code \/ c = Pad(code)

\* C8: with an invitation for (groupID, user's email) whose code is not the
\* supplied code trimmed, the call fails with InvalidInvitationCode, returns no
\* group and writes nothing: a call that returns this error leaves the tables
\* as they were, the right code still redeems the invitation.
C8_WrongCodeRejected ==
    /\ [] \A u \in UserIDs, g \in DOMAIN groups, c \in SuppliedCodes,
             f \in JoinFaults :
             LET rows == PairRows(invitations, g, EmailOf(u))
                 r    == JoinAlone(u, g, c, f)
             IN  rows # {} /\ (\A i \in rows : ~Presents(c, i.code))
                 => /\ r.ret = [ value |-> {}, err |-> "InvalidGroupInvitationCode" ]
                    /\ r.body.w = NoWrites
    /\ [][ \A p \in Procs :
             Returns(p, "join") /\ tx'[p].ret.err = "InvalidGroupInvitationCode" =>
               /\ UNCHANGED << groups, invitations, participants >>
               /\ tx'[p].ret.value = {}
               /\ \E u \in UserIDs, i \in InvitationsOf(tx'[p].group) :
                     /\ i.email = EmailOf(u)
                     /\ i \in invitations'
                     /\ InFlight(JoinBody(View(tx'[p].group), u, tx'[p].group,
                                          Pad(i.code), "none")) ]_vars

\* a redemption was refused for its code and the invitation is still there
C8_Witness ==
    \E p \in Procs :
        /\ tx[p].st = "done" /\ tx[p].op = "join"
        /\ tx[p].cause = "InvalidGroupInvitationCode"
        /\ tx[p].ret = [ value |-> {}, err |-> "InvalidGroupInvitationCode" ]
        /\ \E u \in UserIDs : PairRows(invitations, tx[p].group, EmailOf(u)) # {}

\* C9: issue then redeem. The invitation a committed issuance returns is the
\* row it wrote; a user whose email has an invitation row redeems it with the
\* row's code, bare or between white space; and a redemption that returns its
\* group has raised usersCount by one, created the participant row of the user
\* with role VIP and source invitation, and deleted the invitation of the pair.
C9_IssueThenRedeem ==
    /\ [] \A u \in UserIDs, i \in invitations :
            i.email = EmailOf(u) /\ i.groupID \in DOMAIN groups =>
              \A c \in { i.code, Pad(i.code) } :
                LET b == JoinBody(View(i.groupID), u, i.groupID, c, "none")
                IN  /\ InFlight(b)
                    /\ b.w.delInv = { i.invitationID }
                    /\ b.w.setCount = { groups[i.groupID].usersCount + 1 }
    /\ [][ \A p \in Procs :
             /\ Ends(p, "create") /\ tx'[p].ret.err = "nil" =>
                  /\ tx'[p].ret.value \subseteq invitations' \ invitations
                  /\ \A i \in tx'[p].ret.value :
                        i.groupID = tx[p].group /\ i.email = tx[p].email
             /\ Ends(p, "join") /\ tx'[p].cause # "Canceled"
                  /\ View(tx[p].group) = tx[p].view => tx'[p].ret.err = "nil"
             /\ Ends(p, "join") /\ tx'[p].ret.err = "nil" =>
                  LET g == tx[p].group
                      u == tx[p].user
                  IN  /\ groups'[g].usersCount = groups[g].usersCount + 1
                      /\ \E r \in participants' \ participants :
                            /\ r.groupID = g /\ r.userID = u
                            /\ r.role = "VIP" /\ r.source = "invitation"
                      /\ PairRows(invitations, g, EmailOf(u)) # {}
                      /\ PairRows(invitations', g, EmailOf(u)) = {}
                      /\ tx'[p].ret.value =
                            { [ groupID |-> g, userID |-> groups[g].userID,
                                usersCount |-> groups'[g].usersCount,
                                role |-> "VIP" ] } ]_vars

\* a user redeemed the invitation of their email: the returned group carries
\* the new count, the participant row is there and the invitation is gone
C9_Witness ==
    \E p \in Procs :
        /\ tx[p].st = "done" /\ tx[p].op = "join" /\ tx[p].cause = "nil"
        /\ tx[p].user \in UserIDs
        /\ \E v \in tx[p].ret.value :
              /\ v.role = "VIP"
              /\ v.usersCount = k0[tx[p].group] + 1
              /\ tx[p].group \in DOMAIN groups
              /\ groups[tx[p].group].usersCount = v.usersCount
        /\ \E r \in ParticipantsOf(tx[p].group) :
              r.userID = tx[p].user /\ r.role = "VIP" /\ r.source = "invitation"
        /\ PairRows(invitations, tx[p].group, EmailOf(tx[p].user)) = {}

\* C10: only the owner of a group creates an invitation for it. A call by
\* another user, once past the count and the capacity check, fails with
\* Forbidden; it returns no invitation and writes nothing; and every row that
\* enters the table is written by a call of the owner of its group.
C10_OnlyOwnerIssues ==
    /\ [] \A u \in UserIDs, g \in DOMAIN groups, e \in InviteEmails,
             d \in RandDraws, f \in CreateFaults :
             u # groups[g].userID =>
               LET r == CreateAlone(u, g, e, d, f)
               IN  /\ r.body.w = NoWrites /\ r.ret.value = {}
                   /\ r.body.err \notin { "CountError", "TooManyGroupInvitations" }
                        => r.ret.err = "Forbidden"
    /\ [][ \A i \in invitations' \ invitations :
             \E p \in Procs :
                /\ Ends(p, "create") /\ tx[p].group = i.groupID
                /\ tx[p].group \in DOMAIN groups
                /\ tx[p].user = groups[tx[p].group].userID ]_vars

\* a call of a user who is not the owner was refused, and the group holds no
\* more rows than the owner's calls wrote
C10_Witness ==
    \E p \in Procs :
        /\ tx[p].st = "done" /\ tx[p].op = "create"
        /\ tx[p].cause = "Forbidden"
        /\ tx[p].ret = [ value |-> {}, err |-> "Forbidden" ]
        /\ tx[p].group \in DOMAIN groups


\* C11: when the target group does not exist both workflows are silent
\* no-ops. CreateGroupInvitation, its count query answered, returns no
\* invitation and no error; JoinGroupByInvitation returns no group and no
\* error; and the call leaves groups, invitations and participants as they
\* were.
C11_MissingGroupNoOp ==
    /\ [] \A g \in AllGroups \ DOMAIN groups, u \in UserIDs :
            /\ \A e \in InviteEmails, d \in RandDraws,
                  f \in CreateFaults \ {"count"} :
                  LET r == CreateAlone(u, g, e, d, f)
                  IN  r.ret = [ value |-> {}, err |-> "nil" ] /\ r.body.w = NoWrites
            /\ \A c \in SuppliedCodes, f \in JoinFaults :
                  LET r == JoinAlone(u, g, c, f)
                  IN  r.ret = [ value |-> {}, err |-> "nil" ] /\ r.body.w = NoWrites
    /\ [][ \A p \in Procs :
             /\ Returns(p, "create") \/ Returns(p, "join")
             /\ tx[p].st # "run"
             /\ tx'[p].group \notin DOMAIN groups
             /\ tx'[p].cause # "CountError"
             => /\ tx'[p].ret = [ value |-> {}, err |-> "nil" ]
                /\ UNCHANGED << groups, invitations, participants >> ]_vars

\* the group was deleted; an issuance and a redemption for it have returned
\* nothing and no error, and the tables hold no row of it
C11_Witness ==
    \E p, q \in Procs :
        /\ tx[p].st = "done" /\ tx[p].op = "create"
        /\ tx[q].st = "done" /\ tx[q].op = "join"
        /\ tx[p].group = tx[q].group /\ tx[p].group \notin DOMAIN groups
        /\ tx[p].cause = "nil" /\ tx[p].ret = [ value |-> {}, err |-> "nil" ]
        /\ tx[q].cause = "nil" /\ tx[q].ret = [ value |-> {}, err |-> "nil" ]
        /\ InvitationsOf(tx[p].group) = {} /\ ParticipantsOf(tx[p].group) = {}

\* the conditions CreateGroupInvitation is said to return as they are
RecognizedConditions == {"TooManyGroupInvitations", "Forbidden"}

\* C12 as stated: every failure of CreateGroupInvitation other than
\* TooManyInvitations and Forbidden, the failure of the random source
\* included, is returned as the generic transaction failure; the recognized
\* conditions are returned unchanged; no failure returns an invitation.
C12_EveryOtherFailureWrapped ==
    \A p \in Procs :
        tx[p].st = "done" /\ tx[p].op = "create" /\ tx[p].cause # "nil" =>
            /\ tx[p].ret.value = {}
            /\ tx[p].ret.err = IF tx[p].cause \in RecognizedConditions
                               THEN tx[p].cause ELSE "TransactionError"

\* C12: a failure of CreateGroupInvitation that is a session error - the
\* recognized conditions TooManyInvitations and Forbidden, and the ServerError
\* of a failed random source - is returned unchanged; every other failure (a
\* store error on count or insert, a constraint violation, a refused or
\* cancelled commit) is returned as the generic transaction failure; no
\* failure returns an invitation; and a call fails exactly when its
\* transaction does.
C12_FailuresOfCreate ==
    \A p \in Procs :
        tx[p].st = "done" /\ tx[p].op = "create" =>
            /\ tx[p].cause \in SessionErrors \cup StoreErrors \cup {"nil"}
            /\ tx[p].cause # "nil" <=> tx[p].ret.err # "nil"
            /\ tx[p].cause # "nil" =>
                /\ tx[p].ret.value = {}
                /\ tx[p].ret.err = IF tx[p].cause \in RecognizedConditions \cup {"ServerError"}
                                   THEN tx[p].cause ELSE "TransactionError"

\* an issuance whose random source failed returned the ServerError, while
\* another, stopped by the store, returned the transaction failure
C12_Witness ==
    \E p, q \in Procs :
        /\ tx[p].st = "done" /\ tx[p].op = "create" /\ tx[p].cause = "ServerError"
        /\ tx[p].ret = [ value |-> {}, err |-> "ServerError" ]
        /\ tx[q].st = "done" /\ tx[q].op = "create" /\ tx[q].cause \in StoreErrors
        /\ tx[q].ret = [ value |-> {}, err |-> "TransactionError" ]

\* C13: the code is never reused across invitations: no two invitation rows,
\* of one group or of different groups, carry the same code.
C13_CodeNeverReused ==
    \A i, j \in invitations : i.code = j.code => i = j

\* the digit a character stands for
DigitValue(ch) == CHOOSE d \in 0..9 : DigitChars[d + 1] = ch

RECURSIVE Atoi(_)
\* the number a string of decimal digits stands for
Atoi(s) == IF s = << >> THEN 0
           ELSE 10 * Atoi(SubSeq(s, 1, Len(s) - 1)) + DigitValue(s[Len(s)])

\* 256^(k-1) modulo 10000, for the bytes k = 1..8 of a draw
Weights == << 1, 256, 5536, 7216, 7296, 7776, 656, 7936 >>

\* the 64-bit value of a draw modulo 10000, by the weights of its bytes
Residue(b) ==
    (b[1] * Weights[1] + b[2] * Weights[2] + b[3] * Weights[3] + b[4] * Weights[4]
     + b[5] * Weights[5] + b[6] * Weights[6] + b[7] * Weights[7]
     + b[8] * Weights[8]) % 10000

\* C14: for every 8-byte draw generateVerificationCode returns a string of
\* exactly 4 decimal digits whose value lies in 1000..9999.
C14_CodeInRange ==
    \A g \in generated : g.err = "nil" =>
        /\ Len(g.code) = 4
        /\ \A k \in 1..Len(g.code) : \E d \in 1..10 : g.code[k] = DigitChars[d]
        /\ g.code[1] # "0"
        /\ Atoi(g.code) \in 1000..9999

\* a draw above 2^32 that reduces below 1000 gave a code of four digits
C14_Witness ==
    \E g \in generated :
        /\ g.err = "nil" /\ randBytes[8] = 255
        /\ Residue(randBytes) < 1000
        /\ Len(g.code) = 4 /\ Atoi(g.code) = 1000 + Residue(randBytes)

\* the draw below 2^16 whose value is q
DrawOf(q) == << q % 256, q \div 256, 0, 0, 0, 0, 0, 0 >>

\* C20: the code is modulo-then-shift. With r the 64-bit value of the draw
\* modulo 10000, the code is r when r >= 1000 and r + 1000 when r < 1000; a
\* code n in 1000..1999 is the code of the two residues n - 1000 and n, a
\* code in 2000..9999 of the residue n alone.
C20_ModuloThenShift ==
    \A g \in generated : g.err = "nil" =>
        LET r == Residue(randBytes)
            n == Atoi(g.code)
            sources == { q \in { n - 1000, n } :
                            /\ q \in 0..9999
                            /\ generateVerificationCode(DrawOf(q), FALSE).code = g.code }
        IN  /\ n = IF r >= 1000 THEN r ELSE r + 1000
            /\ r \in sources
            /\ Cardinality(sources) = IF n \in 1000..1999 THEN 2 ELSE 1

\* the code 1500 came of a draw above 2^32 that reduces to 500, and it is
\* the code of the residue 1500 as well
C20_Witness ==
    \E g \in generated :
        /\ g.err = "nil" /\ randBytes[8] = 255
        /\ Residue(randBytes) = 500
        /\ g.code = << "1", "5", "0", "0" >>
        /\ generateVerificationCode(DrawOf(1500), FALSE).code = g.code

\* C15: the capacity check rejects only when the count read in the
\* transaction is greater than 7. An issuance at a count above 7 is rejected
\* with TooManyInvitations whoever the acting user is and writes nothing; at a
\* count of 7 or less no issuance is rejected for capacity, and the owner's
\* issuance at count 7 for a new address writes the 8th row; and with the
\* transactions on a group serialized no group ever holds more than 8 rows.
C15_RejectsAboveSeven ==
    /\ [] \A g \in AllGroups :
            Cardinality(InvitationsOf(g)) <= MaxGroupInvitations + 1
    /\ [] \A u \in UserIDs, g \in DOMAIN groups, e \in InviteEmails,
             d \in RandDraws, f \in CreateFaults \ {"count"} :
             LET n == Cardinality(InvitationsOf(g))
                 r == CreateAlone(u, g, e, d, f)
             IN  /\ n > 7 => /\ r.ret = [ value |-> {},
                                          err |-> "TooManyGroupInvitations" ]
                             /\ r.body.w = NoWrites
                 /\ n <= 7 => r.ret.err # "TooManyGroupInvitations"
                 /\ n = 7 /\ u = groups[g].userID /\ f = "none"
                      /\ PairRows(invitations, g, e) = {}
                      => /\ r.ret.err = "nil"
                         /\ Cardinality(r.body.w.ins) = 1
                         /\ r.ret.value = r.body.w.ins
    /\ [][ \A p \in Procs :
             /\ Ends(p, "create") /\ tx'[p].ret.err = "nil" =>
                  LET n == Cardinality(InvitationsOf(tx[p].group))
                  IN  /\ n <= 7
                      /\ Cardinality({ i \in invitations' :
                                         i.groupID = tx[p].group }) = n + 1
             /\ Returns(p, "create") /\ tx'[p].cause = "TooManyGroupInvitations" =>
                  /\ Cardinality(InvitationsOf(tx'[p].group)) > 7
                  /\ UNCHANGED << groups, invitations, participants >> ]_vars

\* the owner's issuance at count 7 wrote the 8th row of the group, and the
\* issuance after it was rejected for capacity
C15_Witness ==
    \E p, q \in Procs :
        /\ tx[p].st = "done" /\ tx[p].op = "create" /\ tx[p].cause = "nil"
        /\ tx[p].ret.value \subseteq invitations /\ tx[p].ret.value # {}
        /\ Cardinality(InvitationsOf(tx[p].group)) = 8
        /\ tx[q].st = "done" /\ tx[q].op = "create" /\ tx[q].group = tx[p].group
        /\ tx[q].cause = "TooManyGroupInvitations"
        /\ tx[q].ret = [ value |-> {}, err |-> "TooManyGroupInvitations" ]

\* participant rows of g that came of an invitation
InvitedOf(g) == { r \in ParticipantsOf(g) : r.source = ParticipantSourceInvitation }

\* C16: an invitation is single-use, under concurrency too. A redemption
\* commits only while its invitation is still in the table, and its commit
\* removes that invitation, adds one participant row and raises usersCount by
\* one; so of two redemptions in flight for one invitation at most one
\* commits, and the memberships and the outstanding invitations of a group
\* together are never more than the invitations made for it.
C16_InvitationSingleUse ==
    /\ [] \A g \in AllGroups :
            /\ Cardinality(InvitedOf(g)) = IF g \in DOMAIN groups THEN joins[g] ELSE 0
            /\ Cardinality(InvitedOf(g)) + Cardinality(InvitationsOf(g))
                  <= Cardinality(InitialInvitations(PreFill)) + (nextID - 1)
    /\ [][ \A p \in Procs :
             Ends(p, "join") /\ tx'[p].cause = "nil" =>
               LET g    == tx[p].group
                   mine == PairRows(invitations, g, EmailOf(tx[p].user))
               IN  /\ Cardinality(mine) = 1
                   /\ invitations' = invitations \ mine
                   /\ Cardinality(participants' \ participants) = 1
                   /\ participants \subseteq participants'
                   /\ groups'[g].usersCount = groups[g].usersCount + 1
                   /\ \A q \in Procs \ {p} :
                         /\ tx[q].st = "run" /\ tx[q].op = "join" /\ tx[q].group = g
                         /\ EmailOf(tx[q].user) = EmailOf(tx[p].user)
                         => RunInTransaction(tx[q].body, tx[q].view,
                               GroupView(groups', invitations', participants', g))
                              = "SerializationFailure" ]_vars

\* two redemptions of one invitation were in flight together: one committed
\* the membership, the other was refused and returned a failure
C16_Witness ==
    \E p, q \in Procs :
        /\ tx[p].st = "done" /\ tx[p].op = "join" /\ tx[p].cause = "nil"
        /\ tx[q].st = "done" /\ tx[q].op = "join"
        /\ tx[q].cause = "SerializationFailure"
        /\ tx[q].ret = [ value |-> {}, err |-> "TransactionError" ]
        /\ tx[p].group = tx[q].group /\ tx[p].user = tx[q].user
        /\ tx[p].user \in UserIDs
        /\ joins[tx[p].group] = 1
        /\ Cardinality(InvitedOf(tx[p].group)) = 1

\* C17: an invitation goes from absent to issued and from issued to redeemed
\* or deleted with its group, and no other way. A row enters the table only
\* in the commit of a CreateGroupInvitation that returns it; a row leaves the
\* table only in the commit of a JoinGroupByInvitation of the user of its
\* email on its group, or when its group is deleted; a row that stays keeps
\* its invitationID, groupID, email and code; and a call that fails, or a
\* redemption that creates no participant, leaves every row as it was.
C17_InvitationLifecycle ==
    [][ /\ \A i \in invitations' \ invitations :
              \E p \in Procs :
                 /\ Ends(p, "create") /\ tx'[p].cause = "nil"
                 /\ tx'[p].ret = [ value |-> { i }, err |-> "nil" ]
        /\ \A i \in invitations \ invitations' :
              \/ \E p \in Procs :
                    /\ Ends(p, "join") /\ tx'[p].cause = "nil"
                    /\ tx'[p].ret.err = "nil"
                    /\ i.groupID = tx[p].group /\ i.email = EmailOf(tx[p].user)
                    /\ participants' # participants
              \/ i.groupID \in DOMAIN groups \ DOMAIN groups'
        /\ \A i \in invitations, j \in invitations' :
              i.invitationID = j.invitationID => i = j
        /\ \A p \in Procs :
              /\ Returns(p, "create") \/ Returns(p, "join")
              /\ tx'[p].ret.err # "nil" \/ tx'[p].ret.value = {}
                    \/ (tx'[p].op = "join" /\ participants' = participants)
              => invitations' = invitations ]_vars

\* the one invitation issued in this behaviour was redeemed by the user of
\* its email: the membership is there and the row is gone
C17_Witness ==
    \E p \in Procs :
        /\ tx[p].st = "done" /\ tx[p].op = "join" /\ tx[p].cause = "nil"
        /\ tx[p].user \in UserIDs
        /\ nextID = 2
        /\ \A i \in invitations : i.invitationID >= 100
        /\ PairRows(invitations, tx[p].group, EmailOf(tx[p].user)) = {}
        /\ \E r \in InvitedOf(tx[p].group) : r.userID = tx[p].user

\* C19: a participant row with source invitation is created for user u in
\* group G only by a redemption of u on G that read an invitation row of
\* (G, u's email), still in the table at its commit, whose code is the code
\* supplied, white space around it aside; and a user whose email has no
\* invitation for G, or who supplies a wrong code or the code of another
\* invitation, writes no participant row.
C19_ParticipantOnlyByOwnInvitation ==
    /\ [] \A u \in UserIDs, g \in DOMAIN groups, c \in SuppliedCodes,
             f \in JoinFaults :
             LET rows == PairRows(invitations, g, EmailOf(u))
             IN  rows = {} \/ (\A i \in rows : ~Presents(c, i.code))
                 => JoinAlone(u, g, c, f).body.w.addPart = {}
    /\ [][ \A r \in participants' \ participants :
             /\ r.source = ParticipantSourceInvitation
             /\ \E p \in Procs :
                   /\ Ends(p, "join") /\ tx'[p].cause = "nil"
                   /\ tx[p].group = r.groupID /\ tx[p].user = r.userID
                   /\ \E i \in tx[p].view.inv \cap invitations :
                         /\ i.groupID = r.groupID
                         /\ i.email = EmailOf(r.userID)
                         /\ Presents(tx[p].code, i.code)
                         /\ i \notin invitations' ]_vars

\* a user became a participant by the invitation of their email, while the
\* invitation of another address is outstanding and its user is no participant
C19_Witness ==
    \E p \in Procs :
        /\ tx[p].st = "done" /\ tx[p].op = "join" /\ tx[p].cause = "nil"
        /\ \E r \in InvitedOf(tx[p].group) : r.userID = tx[p].user
        /\ \E u \in UserIDs \ { tx[p].user } :
              /\ PairRows(invitations, tx[p].group, EmailOf(u)) # {}
              /\ \A r \in InvitedOf(tx[p].group) : r.userID # u

\* the rows of group g: its row of groups, its invitations, its participants
RowsOf(gs, is, ps, g) ==
    << IF g \in DOMAIN gs THEN { gs[g] } ELSE {},
       { i \in is : i.groupID = g }, { r \in ps : r.groupID = g } >>

\* the store with nothing in it but the rows of group g
OnlyGroup(g) ==
    GroupView([ h \in DOMAIN groups \cap { g } |-> groups[h] ],
              InvitationsOf(g), ParticipantsOf(g), g)

\* C18: workflows on different groups are independent. A call on group G
\* comes to what it would come to with the rows of every other group absent;
\* a returning call on G, whatever it returns, leaves the groups row, the
\* invitation rows and the participant rows of every other group as they
\* were; and a transaction on G is refused at its commit only if the rows of
\* G have changed since it read them, whatever was committed on another
\* group meanwhile.
C18_GroupsIndependent ==
    /\ [] \A g \in AllGroups, u \in UserIDs :
            /\ \A e \in InviteEmails, d \in RandDraws, f \in CreateFaults :
                  CreateAlone(u, g, e, d, f).body
                     = CreateBody(OnlyGroup(g), u, g, e, d, f, nextID)
            /\ \A c \in SuppliedCodes, f \in JoinFaults :
                  JoinAlone(u, g, c, f).body = JoinBody(OnlyGroup(g), u, g, c, f)
    /\ [][ \A p \in Procs :
             /\ Returns(p, "create") \/ Returns(p, "join") =>
                  \A h \in AllGroups \ { tx'[p].group } :
                     RowsOf(groups', invitations', participants', h)
                        = RowsOf(groups, invitations, participants, h)
             /\ (Ends(p, "create") \/ Ends(p, "join"))
                  /\ tx'[p].cause = "SerializationFailure" =>
                  RowsOf(groups, invitations, participants, tx[p].group)
                     # << tx[p].view.row, tx[p].view.inv, tx[p].view.part >> ]_vars

\* an issuance on one group and an issuance on the other were in flight
\* together and both committed: each group holds the row of its own call
C18_Witness ==
    \E p, q \in Procs :
        /\ tx[p].st = "done" /\ tx[p].op = "create" /\ tx[p].cause = "nil"
        /\ tx[q].st = "done" /\ tx[q].op = "create" /\ tx[q].cause = "nil"
        /\ tx[p].group = "g1" /\ tx[q].group = "g2"
        /\ tx[p].ret.value # {} /\ tx[p].ret.value \subseteq InvitationsOf("g1")
        /\ tx[q].ret.value # {} /\ tx[q].ret.value = InvitationsOf("g2")
        /\ \E i \in tx[p].ret.value, j \in tx[q].ret.value :
              i.invitationID + 1 = j.invitationID
====
